---- MODULE Spec2Model ----
(***************************************************************************)
(* Model of bot.py: the three aiogram message handlers (send_welcome,      *)
(* show_stats, process_message), save_to_db and the thanks_messages table. *)
(*                                                                         *)
(* Text is a sequence of one-character strings.  A handler runs without    *)
(* interruption up to its next `await message.reply(...)`: psycopg2 calls  *)
(* are synchronous and save_to_db contains no await, so the only points    *)
(* where another handler of the process can run are the reply calls.       *)
(* A handler invocation is therefore two kinds of step: its dispatch (all  *)
(* the code up to the first reply call) and the completion of a reply call *)
(* (delivered, or raising an exception).                                   *)
(***************************************************************************)
EXTENDS Integers, Sequences, FiniteSets

VARIABLES rows, procs

vars == <<rows, procs>>

(* ------------------------------ bounds -------------------------------- *)

\* longest text drawn when every text over Alphabet is enumerated
MaxLen == 4

\* rows the table may hold before further inserts are no longer explored
MaxRows == 2

\* handler invocations that may be in flight at once
NumProcs == 2

\* rows per recipient in the tables the statistics are computed over
MaxCount == 2

\* LIMIT 5 of the top-recipients query
TopLimit == 5

Procs == 1..NumProcs

(* ------------------------------- text --------------------------------- *)

Alphabet == {"@", "a", " "}

\* the characters str.strip() and str.split() treat as whitespace
Whitespace == {" "}

IsSpace(c) == c \in Whitespace

Min(a, b) == IF a <= b THEN a ELSE b

RECURSIVE LStrip(_)
LStrip(s) ==
    IF s = <<>> THEN <<>>
    ELSE IF IsSpace(Head(s)) THEN LStrip(Tail(s)) ELSE s

RECURSIVE RStrip(_)
RStrip(s) ==
    IF s = <<>> THEN <<>>
    ELSE IF IsSpace(s[Len(s)]) THEN RStrip(SubSeq(s, 1, Len(s) - 1)) ELSE s

\* str.strip()
Strip(s) == RStrip(LStrip(s))

\* length of the leading run of non-whitespace characters
RECURSIVE TokenLen(_)
TokenLen(s) ==
    IF s = <<>> \/ IsSpace(Head(s)) THEN 0 ELSE 1 + TokenLen(Tail(s))

\* str.split(maxsplit=1): leading whitespace is skipped, the first token ends
\* at the first whitespace, the whitespace run after it is skipped and the
\* rest is kept as it is (trailing whitespace included)
Split1(s) ==
    LET s1    == LStrip(s)
        n     == TokenLen(s1)
        first == SubSeq(s1, 1, n)
        rest  == LStrip(SubSeq(s1, n + 1, Len(s1)))
    IN  IF s1 = <<>> THEN <<>>
        ELSE IF rest = <<>> THEN <<first>>
        ELSE <<first, rest>>

StartsWithAtAnywhere(s) == \E i \in DOMAIN s : s[i] = "@"

\* username.startswith('@')
StartsWithAt(s) == s # <<>> /\ s[1] = "@"

(* ------------------------------ replies ------------------------------- *)

Welcome == [kind |-> "welcome"]

StatsUnavailable == [kind |-> "stats_unavailable"]

MissingBody == [kind |-> "missing_body"]

InvalidRecipientFormat == [kind |-> "invalid_recipient"]

NotSaved == [kind |-> "not_saved"]

ProcessingError == [kind |-> "processing_error"]

Accepted(username, user_message) ==
    [kind |-> "accepted", recipient |-> username, body |-> user_message]

StatsReply(total, top) == [kind |-> "stats", total |-> total, top |-> top]

(* ------------------------------- store -------------------------------- *)

Row(recipient, text) == [recipient_username |-> recipient, message_text |-> text]

\* the INSERT never commits, yet True is returned
SaveToDbNoCommit(tbl, recipient, text, connFails, sqlFails) ==
    IF connFails THEN [ret |-> "raise", rows |-> tbl]
    ELSE IF sqlFails THEN [ret |-> "False", rows |-> tbl]
    ELSE [ret |-> "True", rows |-> tbl]

\* save_to_db.  connFails: psycopg2.connect raises, so `conn` is never bound:
\* the except clause prepares `return False`, the finally clause evaluates
\* `if conn` and raises UnboundLocalError, which replaces the return value.
\* sqlFails: execute, fetchone or commit raises; the connection is closed
\* without a commit and False is returned.
SaveToDb(tbl, recipient, text, connFails, sqlFails) ==
    IF connFails THEN [ret |-> "raise", rows |-> tbl]
    ELSE IF sqlFails THEN [ret |-> "False", rows |-> tbl]
    ELSE [ret |-> "True", rows |-> Append(tbl, Row(recipient, text))]

\* SELECT COUNT(DISTINCT recipient_username)
CountDistinct(tbl) == Cardinality({tbl[i].recipient_username : i \in DOMAIN tbl})

\* SELECT COUNT(*) FROM thanks_messages
CountAll(tbl) == Len(tbl)

\* GROUP BY recipient_username with COUNT(*) as cnt
GroupCounts(tbl) ==
    { <<r, Cardinality({i \in DOMAIN tbl : tbl[i].recipient_username = r})>> :
        r \in {tbl[i].recipient_username : i \in DOMAIN tbl} }

RECURSIVE OrderByCntAsc(_)
OrderByCntAsc(G) ==
    IF G = {} THEN {<<>>}
    ELSE UNION { { <<g>> \o s : s \in OrderByCntAsc(G \ {g}) } :
                   g \in {x \in G : \A y \in G : y[2] >= x[2]} }

\* ORDER BY cnt DESC: every order of the groups that is non-increasing in
\* cnt; the order among equal counts is whatever the database produces
RECURSIVE OrderByCntDesc(_)
OrderByCntDesc(G) ==
    IF G = {} THEN {<<>>}
    ELSE UNION { { <<g>> \o s : s \in OrderByCntDesc(G \ {g}) } :
                   g \in {x \in G : \A y \in G : y[2] <= x[2]} }

\* LIMIT n
Limit(s, n) == SubSeq(s, 1, Min(n, Len(s)))

\* the results the top-recipients query can return
TopRecipients(tbl) == { Limit(s, TopLimit) : s \in OrderByCntDesc(GroupCounts(tbl)) }

(* ------------------------- handler invocations ------------------------ *)

\* pc: idle | try_reply (a reply call of the try block is awaited) |
\*     except_reply (a reply call of the except block is awaited) | done
\* calls: the payloads of the reply calls made so far, the last one being the
\*     call awaited; sent: the payloads delivered
\* conn: the local variable `conn` of show_stats: unbound | open | closed
\* raised: an exception left the handler
\* storeErr: none | connect | sql, the store failure met by this invocation
Idle ==
    [pc |-> "idle", kind |-> "none", text |-> <<>>, calls |-> <<>>,
     sent |-> <<>>, conn |-> "none", raised |-> FALSE, storeErr |-> "none",
     insertCalled |-> FALSE, replyFails |-> 0]

\* send_welcome up to its reply call
SendWelcome ==
    [Idle EXCEPT !.pc = "try_reply", !.kind = "welcome", !.calls = <<Welcome>>]

\* show_stats up to its first reply call; top is the result of the second query
ShowStats(tbl, connFails, sqlFails, top) ==
    IF connFails
    THEN [Idle EXCEPT !.pc = "except_reply", !.kind = "stats",
                      !.calls = <<StatsUnavailable>>, !.conn = "unbound",
                      !.storeErr = "connect"]
    ELSE IF sqlFails
    THEN [Idle EXCEPT !.pc = "except_reply", !.kind = "stats",
                      !.calls = <<StatsUnavailable>>, !.conn = "open",
                      !.storeErr = "sql"]
    ELSE [Idle EXCEPT !.pc = "try_reply", !.kind = "stats",
                      !.calls = <<StatsReply(CountAll(tbl), top)>>,
                      !.conn = "open"]

Msg(t, pc, reply) ==
    [Idle EXCEPT !.pc = pc, !.kind = "message", !.text = t, !.calls = <<reply>>]

\* the row is saved before the recipient is validated
ProcessMessageSaveFirst(tbl, t, connFails, sqlFails) ==
    LET text  == Strip(t)
        parts == Split1(text)
    IN  IF Len(parts) < 2
        THEN [rec |-> Msg(t, "try_reply", MissingBody), rows |-> tbl]
        ELSE
          LET username     == Strip(parts[1])
              user_message == Strip(parts[2])
              res == SaveToDb(tbl, username, user_message, connFails, sqlFails)
          IN  IF res.ret = "raise"
              THEN [rec |-> [Msg(t, "except_reply", ProcessingError) EXCEPT
                               !.storeErr = "connect", !.insertCalled = TRUE],
                    rows |-> res.rows]
              ELSE IF ~StartsWithAt(username)
              THEN [rec |-> [Msg(t, "try_reply", InvalidRecipientFormat) EXCEPT
                               !.insertCalled = TRUE],
                    rows |-> res.rows]
              ELSE IF res.ret = "False"
              THEN [rec |-> [Msg(t, "try_reply", NotSaved) EXCEPT
                               !.storeErr = "sql", !.insertCalled = TRUE],
                    rows |-> res.rows]
              ELSE [rec |-> [Msg(t, "try_reply", Accepted(username, user_message))
                               EXCEPT !.insertCalled = TRUE],
                    rows |-> res.rows]

\* process_message up to its first reply call, on table tbl: the invocation's
\* record and the table it leaves
ProcessMessage(tbl, t, connFails, sqlFails) ==
    LET text  == Strip(t)
        parts == Split1(text)
    IN  IF Len(parts) < 2
        THEN [rec |-> Msg(t, "try_reply", MissingBody), rows |-> tbl]
        ELSE
          LET username     == Strip(parts[1])
              user_message == Strip(parts[2])
          IN  IF ~StartsWithAt(username)
              THEN [rec |-> Msg(t, "try_reply", InvalidRecipientFormat), rows |-> tbl]
              ELSE
                LET res == SaveToDb(tbl, username, user_message, connFails, sqlFails)
                IN  IF res.ret = "raise"
                    THEN [rec |-> [Msg(t, "except_reply", ProcessingError) EXCEPT
                                     !.storeErr = "connect", !.insertCalled = TRUE],
                          rows |-> res.rows]
                    ELSE IF res.ret = "False"
                    THEN [rec |-> [Msg(t, "try_reply", NotSaved) EXCEPT
                                     !.storeErr = "sql", !.insertCalled = TRUE],
                          rows |-> res.rows]
                    ELSE [rec |-> [Msg(t, "try_reply",
                                       Accepted(username, user_message)) EXCEPT
                                     !.insertCalled = TRUE],
                          rows |-> res.rows]

Pending(rec) == rec.calls[Len(rec.calls)]

\* the notice of the except block is sent on every path, as if it stood in
\* the finally block
ResumeReplyInFinally(rec, ok) ==
    LET r == IF ok THEN [rec EXCEPT !.sent = Append(@, Pending(rec))]
                   ELSE [rec EXCEPT !.replyFails = @ + 1]
    IN  IF rec.pc = "try_reply"
        THEN IF rec.kind = "welcome" THEN [r EXCEPT !.pc = "done"]
             ELSE IF rec.kind = "stats"
             THEN [r EXCEPT !.pc = "except_reply",
                            !.calls = Append(@, StatsUnavailable)]
             ELSE [r EXCEPT !.pc = "except_reply",
                            !.calls = Append(@, ProcessingError)]
        ELSE IF ok
             THEN IF rec.conn = "unbound"
                  THEN [r EXCEPT !.pc = "done", !.raised = TRUE]
                  ELSE [r EXCEPT !.pc = "done",
                                 !.conn = IF @ = "open" THEN "closed" ELSE @]
             ELSE [r EXCEPT !.pc = "done", !.raised = TRUE,
                            !.conn = IF @ = "open" THEN "closed" ELSE @]

\* a handler from the completion of the reply call it awaits (ok: the reply
\* was delivered, otherwise the call raised) to its next reply call or its end.
\* try block, delivered: the handler ends (show_stats closes conn in finally).
\* try block, raised: send_welcome logs and ends; show_stats and
\*   process_message enter except and call reply with their notice.
\* except block, delivered: the handler ends, and the finally clause of
\*   show_stats evaluates `if conn`, an UnboundLocalError when connect failed.
\* except block, raised: the exception leaves the handler.
Resume(rec, ok) ==
    LET r == IF ok THEN [rec EXCEPT !.sent = Append(@, Pending(rec))]
                   ELSE [rec EXCEPT !.replyFails = @ + 1]
    IN  IF rec.pc = "try_reply"
        THEN IF ok
             THEN [r EXCEPT !.pc = "done",
                            !.conn = IF @ = "open" THEN "closed" ELSE @]
             ELSE IF rec.kind = "welcome" THEN [r EXCEPT !.pc = "done"]
             ELSE IF rec.kind = "stats"
             THEN [r EXCEPT !.pc = "except_reply",
                            !.calls = Append(@, StatsUnavailable)]
             ELSE [r EXCEPT !.pc = "except_reply",
                            !.calls = Append(@, ProcessingError)]
        ELSE IF ok
             THEN IF rec.conn = "unbound"
                  THEN [r EXCEPT !.pc = "done", !.raised = TRUE]
                  ELSE [r EXCEPT !.pc = "done",
                                 !.conn = IF @ = "open" THEN "closed" ELSE @]
             ELSE [r EXCEPT !.pc = "done", !.raised = TRUE,
                            !.conn = IF @ = "open" THEN "closed" ELSE @]

(* ------------------------------ actions ------------------------------- *)

Free(p) == procs[p].pc \in {"idle", "done"}

\* /start or /help is dispatched to send_welcome
DispatchWelcome(p) ==
    /\ Free(p)
    /\ procs' = [procs EXCEPT ![p] = SendWelcome]
    /\ UNCHANGED rows

\* /stats is dispatched to show_stats
DispatchStats(p, connFails, sqlFails) ==
    /\ Free(p)
    /\ \E top \in TopRecipients(rows) :
          procs' = [procs EXCEPT ![p] = ShowStats(rows, connFails, sqlFails, top)]
    /\ UNCHANGED rows

\* any other text is dispatched to process_message
DispatchMessage(p, t, connFails, sqlFails) ==
    /\ Free(p)
    /\ LET out == ProcessMessage(rows, t, connFails, sqlFails)
       IN  /\ Len(out.rows) <= MaxRows
           /\ rows' = out.rows
           /\ procs' = [procs EXCEPT ![p] = out.rec]

\* the reply call awaited by p completes
ReplyDone(p, ok) ==
    /\ procs[p].pc \in {"try_reply", "except_reply"}
    /\ procs' = [procs EXCEPT ![p] = Resume(procs[p], ok)]
    /\ UNCHANGED rows

(* --------------------------- specifications --------------------------- *)

\* the texts of the events: no token, one token without and with '@', two
\* tokens without '@', a handle and a body, a bare '@' and a body, and a
\* padded text whose body has two words
Texts ==
    { <<>>,
      <<"a">>,
      <<"@", "a">>,
      <<"a", " ", "a">>,
      <<"@", "a", " ", "a">>,
      <<"@", " ", "a">>,
      <<" ", "@", "@", " ", " ", "a", " ", "a", " ">> }

\* the text of the messages handled concurrently
ConcTexts == { <<"@", "a", " ", "a">> }

\* every text over Alphabet of at most MaxLen characters
AllTexts == UNION { [1..n -> Alphabet] : n \in 0..MaxLen }

\* after on_startup: init_db has created the table, no event is being handled
Init ==
    /\ rows = <<>>
    /\ procs = [p \in Procs |-> Idle]

\* one event at a time
Next ==
    \/ DispatchWelcome(1)
    \/ \E c, s \in BOOLEAN : DispatchStats(1, c, s)
    \/ \E t \in Texts, c, s \in BOOLEAN : DispatchMessage(1, t, c, s)
    \/ \E ok \in BOOLEAN : ReplyDone(1, ok)

Spec == Init /\ [][Next]_vars

\* the events of one batch of updates are handled concurrently
NextConc ==
    \E p \in Procs :
       \/ DispatchWelcome(p)
       \/ \E c, s \in BOOLEAN : DispatchStats(p, c, s)
       \/ \E t \in ConcTexts, c, s \in BOOLEAN : DispatchMessage(p, t, c, s)
       \/ \E ok \in BOOLEAN : ReplyDone(p, ok)

SpecConc == Init /\ [][NextConc]_vars

\* one message, of any text, handled on the empty table
NextParse ==
    \/ \E t \in AllTexts, c, s \in BOOLEAN :
          procs[1].pc = "idle" /\ DispatchMessage(1, t, c, s)
    \/ \E ok \in BOOLEAN : ReplyDone(1, ok)

SpecParse == Init /\ [][NextParse]_vars

StatsHandles ==
    << <<"@", "a">>, <<"@", "@">>, <<"@", "a", "a">>,
       <<"@", "a", "@">>, <<"@", "@", "a">>, <<"@", "@", "@">> >>

RECURSIVE Repeat(_, _)
Repeat(x, n) == IF n = 0 THEN <<>> ELSE <<x>> \o Repeat(x, n - 1)

\* the table holding cnt[i] rows for the i-th handle
RECURSIVE TableOf(_, _)
TableOf(i, cnt) ==
    IF i > Len(StatsHandles) THEN <<>>
    ELSE Repeat(Row(StatsHandles[i], <<"a">>), cnt[i]) \o TableOf(i + 1, cnt)

\* a table of accepted messages to up to six recipients
InitStats ==
    /\ \E cnt \in [1..Len(StatsHandles) -> 0..MaxCount] : rows = TableOf(1, cnt)
    /\ procs = [p \in Procs |-> Idle]

\* one statistics command on such a table
NextStats ==
    \/ \E c, s \in BOOLEAN : procs[1].pc = "idle" /\ DispatchStats(1, c, s)
    \/ \E ok \in BOOLEAN : ReplyDone(1, ok)

SpecStats == InitStats /\ [][NextStats]_vars

(* ------------------------- vocabulary of the claims ------------------- *)

\* positions where a whitespace-separated token of t starts
TokenStarts(t) == {i \in DOMAIN t : t[i] # " " /\ (i = 1 \/ t[i - 1] = " ")}

NumTokens(t) == Cardinality(TokenStarts(t))

NthTokenStart(t, n) ==
    CHOOSE i \in TokenStarts(t) : Cardinality({j \in TokenStarts(t) : j < i}) = n - 1

FirstTokenHasAt(t) == NumTokens(t) >= 1 /\ t[NthTokenStart(t, 1)] = "@"

\* the first token of a text of at least two tokens
FirstToken(t) ==
    LET b == NthTokenStart(t, 1)
        e == CHOOSE j \in b..Len(t) : t[j + 1] = " " /\ \A k \in b..j : t[k] # " "
    IN  SubSeq(t, b, e)

\* the text from the second token to the last character that is no whitespace
Remainder(t) ==
    LET b == NthTokenStart(t, 2)
        e == CHOOSE j \in DOMAIN t : t[j] # " " /\ \A k \in (j + 1)..Len(t) : t[k] = " "
    IN  SubSeq(t, b, e)

RowsOf(tbl, r) == Cardinality({i \in DOMAIN tbl : tbl[i].recipient_username = r})

Recipients(tbl) == {tbl[i].recipient_username : i \in DOMAIN tbl}

\* the count the GROUP BY query reports for recipient r
RecipientCount(tbl, r) ==
    LET G == {g \in GroupCounts(tbl) : g[1] = r}
    IN  IF G = {} THEN 0 ELSE (CHOOSE g \in G : TRUE)[2]

RECURSIVE SumCounts(_)
SumCounts(top) == IF top = <<>> THEN 0 ELSE Head(top)[2] + SumCounts(Tail(top))

Done(p) == procs[p].pc = "done"

\* the step is p's dispatch of an event
Dispatched(p) == procs[p].pc \in {"idle", "done"} /\ procs'[p].pc \notin {"idle", "done"}

(* -------------------------------- C1 ---------------------------------- *)

C2_StoreErrorRepliesNotSaved ==
    [][\A p \in Procs :
          (Dispatched(p) /\ procs'[p].kind = "message"
                         /\ procs'[p].storeErr # "none")
          => (procs'[p].calls = <<NotSaved>> /\ rows' = rows)]_vars

(* -------------------------------- C3 ---------------------------------- *)

\* C3: no store failure makes a handler raise: an invocation all of whose
\* reply calls succeeded ends without an exception reaching the dispatcher.
C3_NoFailureEscapes ==
    \A p \in Procs : (Done(p) /\ procs[p].replyFails = 0) => ~procs[p].raised

(* -------------------------------- C4 ---------------------------------- *)

\* C4: every row has a recipient_username that starts with '@' and has a
\* character after it, and a message_text with a character that is no
\* whitespace.
C4_RowsWellFormed ==
    \A i \in DOMAIN rows :
       /\ Len(rows[i].recipient_username) >= 2
       /\ rows[i].recipient_username[1] = "@"
       /\ \E j \in DOMAIN rows[i].message_text : rows[i].message_text[j] # " "

(* -------------------------------- C5 ---------------------------------- *)

\* C5: a message of at least two tokens whose first starts with '@' and whose
\* insert succeeded is answered by the confirmation echoing the first token
\* and the trimmed remainder.
C5_AcceptedIsConfirmed ==
    \A p \in Procs :
       (/\ Done(p) /\ procs[p].kind = "message"
        /\ NumTokens(procs[p].text) >= 2 /\ FirstTokenHasAt(procs[p].text)
        /\ procs[p].storeErr = "none" /\ Len(procs[p].sent) = 1)
       => procs[p].sent[1] =
            Accepted(FirstToken(procs[p].text), Remainder(procs[p].text))

(* -------------------------------- C6 ---------------------------------- *)

\* C6 as stated: every text whose first token does not start with '@' is
\* answered with the "first token must be a handle" notice, whatever the
\* number of tokens.
C6_NoAtAlwaysInvalidRecipient ==
    \A p \in Procs :
       (/\ procs[p].kind = "message"
        /\ NumTokens(procs[p].text) >= 1 /\ ~FirstTokenHasAt(procs[p].text))
       => procs[p].calls[1] = InvalidRecipientFormat

\* C6 amended: a text of at least two tokens whose first does not start with
\* '@' makes process_message call reply with the "first token must be a
\* handle" notice, which is the reply delivered when that call succeeds; a
\* text of fewer than two tokens gets the "missing recipient/body" notice
\* instead, whatever its first token.
C6_NoAtTwoTokensInvalidRecipient ==
    \A p \in Procs :
       procs[p].kind = "message" =>
          /\ (NumTokens(procs[p].text) >= 2 /\ ~FirstTokenHasAt(procs[p].text))
             => /\ procs[p].calls[1] = InvalidRecipientFormat
                /\ (Done(p) /\ procs[p].replyFails = 0)
                   => procs[p].sent = <<InvalidRecipientFormat>>
          /\ NumTokens(procs[p].text) < 2 => procs[p].calls[1] = MissingBody

C6_Witness ==
    \E p \in Procs :
       /\ Done(p) /\ procs[p].kind = "message"
       /\ NumTokens(procs[p].text) >= 2 /\ ~FirstTokenHasAt(procs[p].text)
       /\ \E i \in DOMAIN procs[p].text : procs[p].text[i] = "@"
       /\ procs[p].sent = <<InvalidRecipientFormat>>

(* -------------------------------- C7 ---------------------------------- *)

\* C7: the dispatch of a greeting, of a statistics command or of a message
\* rejected with MissingBody or InvalidRecipientFormat, and every later step
\* of that invocation, leaves the table as it was and never calls save_to_db.
C7_RejectedLeavesTable ==
    [][\A p \in Procs :
          (/\ procs'[p] # procs[p]
           /\ \/ procs'[p].kind \in {"welcome", "stats"}
              \/ /\ procs'[p].kind = "message"
                 /\ procs'[p].calls[1] \in {MissingBody, InvalidRecipientFormat})
          => (rows' = rows /\ ~procs'[p].insertCalled)]_vars

C7_Witness ==
    \E p \in Procs :
       /\ Done(p) /\ procs[p].kind = "message"
       /\ procs[p].sent = <<InvalidRecipientFormat>>
       /\ Len(rows) >= 1

(* -------------------------------- C8 ---------------------------------- *)

\* C8: a successful insert raises the total the statistics report by exactly
\* one and the count of the inserted recipient by exactly one, and no step
\* lowers the total or the count of any recipient.
C8_InsertRaisesCountsByOne ==
    [][/\ \A p \in Procs :
             (/\ Dispatched(p) /\ procs'[p].kind = "message"
              /\ procs'[p].insertCalled /\ procs'[p].storeErr = "none")
             => /\ CountAll(rows') = CountAll(rows) + 1
                /\ RecipientCount(rows', procs'[p].calls[1].recipient)
                     = RecipientCount(rows, procs'[p].calls[1].recipient) + 1
       /\ CountAll(rows') >= CountAll(rows)
       /\ \A g \in GroupCounts(rows) : RecipientCount(rows', g[1]) >= g[2]]_vars

C8_Witness ==
    \E p \in Procs :
       /\ Done(p) /\ procs[p].kind = "message" /\ Len(procs[p].sent) = 1
       /\ procs[p].sent[1].kind = "accepted"
       /\ RecipientCount(rows, procs[p].sent[1].recipient) = 2
       /\ CountAll(rows) = 2

(* -------------------------------- C9 ---------------------------------- *)

\* C9: the statistics computed on a table list min(5, number of distinct
\* recipients) entries for distinct recipients, each with the number of rows
\* of its recipient, in non-increasing order of count, and no recipient left
\* out has more rows than a listed one; the total is the number of rows.
C9_TopFive ==
    \A p \in Procs :
       (procs[p].calls # <<>> /\ procs[p].calls[1].kind = "stats") =>
          LET top   == procs[p].calls[1].top
              total == procs[p].calls[1].total
              n     == Cardinality(Recipients(rows))
          IN  /\ total = Len(rows)
              /\ Len(top) = (IF n < 5 THEN n ELSE 5)
              /\ \A i, j \in DOMAIN top : i # j => top[i][1] # top[j][1]
              /\ \A i \in DOMAIN top :
                    top[i][2] = RowsOf(rows, top[i][1]) /\ top[i][2] >= 1
              /\ \A i, j \in DOMAIN top : i < j => top[i][2] >= top[j][2]
              /\ \A r \in Recipients(rows) :
                    (\A i \in DOMAIN top : top[i][1] # r)
                    => \A i \in DOMAIN top : RowsOf(rows, r) <= top[i][2]

C9_Witness ==
    \E p \in Procs :
       /\ Done(p) /\ Len(procs[p].sent) = 1 /\ procs[p].sent[1].kind = "stats"
       /\ Cardinality(Recipients(rows)) = 6
       /\ Len(procs[p].sent[1].top) = 5
       /\ procs[p].sent[1].top[1][2] > procs[p].sent[1].top[5][2]
       /\ procs[p].sent[1].top[4][2] = procs[p].sent[1].top[5][2]

(* -------------------------------- C10 --------------------------------- *)

\* C10: in every statistics reply, also one computed or awaited while other
\* handlers insert, the total is at least the sum of the counts it lists.
C10_TotalCoversTop ==
    \A p \in Procs :
       \A i \in DOMAIN procs[p].calls :
          procs[p].calls[i].kind = "stats"
          => procs[p].calls[i].total >= SumCounts(procs[p].calls[i].top)

C10_Witness ==
    \E p, q \in Procs :
       /\ procs[p].pc = "try_reply" /\ procs[p].kind = "stats"
       /\ procs[p].calls[1].total = 1
       /\ SumCounts(procs[p].calls[1].top) = 1
       /\ procs[q].kind = "message" /\ procs[q].pc = "try_reply"
       /\ Len(rows) = 2

====
